---- MODULE Spec2Model ----
(***************************************************************************)
(* The orchestration engine of the trading agent:                          *)
(*   - run_parallel_analysts and workflow      (src/Agents/workflow.py)     *)
(*   - the bull/bear/judge debate graph  (src/Agents/researcher_debate.py)  *)
(*   - the decision / reflection retry loop    (src/Agents/workflow.py)     *)
(*   - the risk stance chain             (src/Agents/Risk_Management)       *)
(* Texts are sequences of one-character strings, so that lower(), upper(),  *)
(* startswith() and the substring test are computed, not assumed.           *)
(*                                                                         *)
(* Specifications:                                                          *)
(*   Spec        one call of workflow(ticker)                               *)
(*   FanSpec     run_parallel_analysts alone, with fair scheduling          *)
(*   DebateSpec  one call of run_debate_simulation(..., max_rounds)         *)
(*   StageSpec   the risk stage of workflow (lines 49-56), entered with     *)
(*               its local variables as inputs                              *)
(*   LoopSpec    the decision loop of workflow (lines 58-112), entered      *)
(*               with its local variables as inputs                         *)
(*   RiskSpec    the stance chain of Risk_Management/synthesizer.py         *)
(*   PartsSpec   the workflow run together with the two stages above,       *)
(*               each entered with its local variables as inputs            *)
(*   TwoRunSpec  two calls of run_parallel_analysts in two threads          *)
(*   NewsSpec    one call of getNewsData, with fair scheduling              *)
(* The graph runtime's own step budget lies outside the repository and is   *)
(* not modelled; a run is followed for at most RoundCap rounds.             *)
(***************************************************************************)
EXTENDS Integers, Sequences, FiniteSets, TLC

VARIABLES
    pc,               \* where the run is: a graph node, a workflow line, or an end
    err,              \* the exception that ended the run, or "none"
    futures,          \* run_parallel_analysts: report kind -> Pending or its result
    analyst_reports,  \* workflow: the bundle returned by run_parallel_analysts
    silent,           \* the producers whose invocation never responds
    ticker,           \* workflow: the ticker argument
    context,          \* DebateState: ticker, technical, sentiment, news, fundamentals
    history,          \* DebateState.history
    turn,             \* DebateState.turn
    round,            \* DebateState.round
    max_rounds,       \* DebateState.max_rounds
    judge_verdict,    \* DebateState.judge_verdict
    route,            \* what the last conditional edge returned
    debate_synthesis, \* workflow local debate_synthesis
    decisions,        \* the decision texts generated so far, in order
    reflections,      \* the validator replies received so far, in order
    trader_decision,  \* workflow local trader_decision["decision"]
    reflection_result,\* workflow local reflection_result["reflection"]
    retry_count,      \* workflow local retry_count
    result,           \* the dict returned by workflow, or NoResult
    risk_report,      \* workflow local risk_report
    calls,            \* the agent invocations made so far, with their arguments
    chain_inputs,     \* synthesizer.py: the reports and trader plan of the risk chain
    risky_response,   \* synthesizer.py: risky_response
    neutral_response, \* synthesizer.py: neutral_response
    safe_response,    \* synthesizer.py: safe_response
    synthesis_result, \* synthesizer.py: synthesis_result
    runs,             \* two concurrent calls: run id -> the locals of that call
    heap,             \* two concurrent calls: the objects constructed so far
    current_loop,     \* two concurrent calls: thread -> the loop set_event_loop made current
    start_date,       \* getNewsData: start_date
    end_date,         \* getNewsData: end_date
    page,             \* getNewsData: page
    attempt,          \* make_request: the attempt number of the call in progress
    response,         \* getNewsData: response
    news_results,     \* getNewsData: news_results
    requests          \* the HTTP requests made so far, with how each ended

vars == <<pc, err, futures, analyst_reports, silent, ticker, context, history, turn, round, max_rounds,
          judge_verdict, route, debate_synthesis, decisions, reflections,
          trader_decision, reflection_result, retry_count, result, risk_report, calls,
          chain_inputs, risky_response, neutral_response, safe_response,
          synthesis_result, runs, heap, current_loop,
          start_date, end_date, page, attempt, response, news_results, requests>>

debateVars == <<context, history, turn, round, max_rounds, judge_verdict, route>>
loopVars == <<debate_synthesis, decisions, reflections, trader_decision, reflection_result,
              retry_count, result, risk_report, calls>>
fanVars == <<futures, analyst_reports, silent, ticker>>
twoVars == <<runs, heap, current_loop>>
newsVars == <<start_date, end_date, page, attempt, response, news_results, requests>>
loopLocals == <<debate_synthesis, decisions, reflections, trader_decision,
                reflection_result, retry_count, result, risk_report>>
riskVars == <<chain_inputs, risky_response, neutral_response, safe_response,
              synthesis_result>>

-----------------------------------------------------------------------------
(* Bounds *)

\* the largest max_rounds a debate is started with
MaxRoundsBound == 4

\* a run is followed for at most this many rounds
RoundCap == MaxRoundsBound + 1

-----------------------------------------------------------------------------
(* Text: str.lower, str.upper, str.startswith, the "in" substring test *)

UpperLetters ==
    <<"A", "B", "C", "D", "E", "F", "G", "H", "I", "J", "K", "L", "M",
      "N", "O", "P", "Q", "R", "S", "T", "U", "V", "W", "X", "Y", "Z">>

LowerLetters ==
    <<"a", "b", "c", "d", "e", "f", "g", "h", "i", "j", "k", "l", "m",
      "n", "o", "p", "q", "r", "s", "t", "u", "v", "w", "x", "y", "z">>

LowerChar(c) ==
    IF \E k \in 1..26 : UpperLetters[k] = c
    THEN LowerLetters[CHOOSE k \in 1..26 : UpperLetters[k] = c]
    ELSE c

UpperChar(c) ==
    IF \E k \in 1..26 : LowerLetters[k] = c
    THEN UpperLetters[CHOOSE k \in 1..26 : LowerLetters[k] = c]
    ELSE c

Lower(s) == [i \in 1..Len(s) |-> LowerChar(s[i])]

Upper(s) == [i \in 1..Len(s) |-> UpperChar(s[i])]

StartsWith(s, p) == Len(s) >= Len(p) /\ SubSeq(s, 1, Len(p)) = p

Contains(s, p) ==
    \E i \in 0..(Len(s) - Len(p)) : SubSeq(s, i + 1, i + Len(p)) = p

\* Python's None and the empty string
None == <<"<None>">>

Empty == <<>>

-----------------------------------------------------------------------------
(* The replies of the external agents *)

TxtNo ==
    <<"N", "O">>
TxtNoVerdict ==
    <<"N", "o", " ", "v", "e", "r", "d", "i", "c", "t", " ", "r", "e", "t", "u", "r", "n", "e", "d", ".">>
TxtNotATie ==
    <<"N", "o", "t", " ", "a", " ", "t", "i", "e">>
TxtBull ==
    <<"b", "u", "l", "l">>
TxtBearCap ==
    <<"B", "e", "a", "r">>
TxtBearBeatsBull ==
    <<"b", "e", "a", "r", " ", "b", "e", "a", "t", "s", " ", "b", "u", "l", "l">>
TxtTie ==
    <<"T", "I", "E">>
TxtUnsure ==
    <<"u", "n", "s", "u", "r", "e">>
TxtOK ==
    <<"O", "K">>
TxtFailed ==
    <<"R", "e", "s", "e", "a", "r", "c", "h", " ", "e", "x", "e", "c", "u", "t", "i", "o", "n", " ", "f", "a", "i", "l", "e", "d">>
TxtNoHallucination ==
    <<"N", "O", " ", "H", "A", "L", "L", "U", "C", "I", "N", "A", "T", "I", "O", "N">>
TxtHallucinationDetected ==
    <<"H", "a", "l", "l", "u", "c", "i", "n", "a", "t", "i", "o", "n", " ", "d", "e", "t", "e", "c", "t", "e", "d">>
TxtSupported ==
    <<"S", "u", "p", "p", "o", "r", "t", "e", "d">>
TxtBuy ==
    <<"u", "p", " ", "B", "U", "Y">>
TxtHold ==
    <<"f", "l", "a", "t", " ", "H", "O", "L", "D">>
TxtSell ==
    <<"d", "o", "w", "n", " ", "S", "E", "L", "L">>
TxtMaybe ==
    <<"m", "a", "y", "b", "e">>
TxtBullCase ==
    <<"g", "r", "o", "w", "t", "h">>
TxtBearCase ==
    <<"r", "i", "s", "k">>

TxtHedge ==
    <<"h", "e", "d", "g", "e">>
TxtTicker ==
    <<"A", "A", "P", "L">>
TxtPlan ==
    <<"B", "u", "y", " ", "1", "0", "0", "0", " ", "s", "h", "a", "r", "e", "s", " ", "a", "h", "e", "a", "d", " ", "o", "f", " ", "e", "a", "r", "n", "i", "n", "g", "s", ".">>
TxtChainHistory ==
    <<"A", "g", "g", "r", "e", "s", "s", "i", "v", "e", " ", "l", "e", "d", ",", " ", "N", "e", "u", "t", "r", "a", "l", " ", "r", "a", "i", "s", "e", "d", " ", "b", "a", "l", "a", "n", "c", "e", ",", " ", "S", "a", "f", "e", " ", "h", "i", "g", "h", "l", "i", "g", "h", "t", "e", "d", " ", "r", "i", "s", "k", "s", ".">>
TxtGoLong ==
    <<"g", "o", " ", "l", "o", "n", "g">>
TxtStayOut ==
    <<"s", "t", "a", "y", " ", "o", "u", "t">>
TxtDebateNoSession ==
    <<"D", "e", "b", "a", "t", "e", " ", "c", "o", "u", "l", "d", " ", "n", "o", "t", " ", "b", "e", " ", "s", "t", "a", "r", "t", "e", "d", " ", "d", "u", "e", " ", "t", "o", " ", "s", "e", "s", "s", "i", "o", "n", " ", "s", "e", "t", "u", "p", " ", "f", "a", "i", "l", "u", "r", "e", ".">>
TxtDebateNoFinal ==
    <<"D", "e", "b", "a", "t", "e", " ", "c", "o", "m", "p", "l", "e", "t", "e", "d", " ", "b", "u", "t", " ", "n", "o", " ", "f", "i", "n", "a", "l", " ", "r", "e", "s", "p", "o", "n", "s", "e", " ", "w", "a", "s", " ", "r", "e", "c", "e", "i", "v", "e", "d", ".">>
TxtDebateFailed ==
    <<"D", "e", "b", "a", "t", "e", " ", "f", "a", "i", "l", "e", "d", " ", "w", "i", "t", "h", " ", "e", "r", "r", "o", "r", ":", " ", "x">>
TxtBalanced ==
    <<"b", "a", "l", "a", "n", "c", "e", "d">>
TxtSynthNoSession ==
    <<"S", "y", "n", "t", "h", "e", "s", "i", "s", " ", "c", "o", "u", "l", "d", " ", "n", "o", "t", " ", "b", "e", " ", "s", "t", "a", "r", "t", "e", "d", " ", "d", "u", "e", " ", "t", "o", " ", "s", "e", "s", "s", "i", "o", "n", " ", "s", "e", "t", "u", "p", " ", "f", "a", "i", "l", "u", "r", "e", ".">>
TxtSynthNoFinal ==
    <<"S", "y", "n", "t", "h", "e", "s", "i", "s", " ", "c", "o", "m", "p", "l", "e", "t", "e", "d", " ", "b", "u", "t", " ", "n", "o", " ", "f", "i", "n", "a", "l", " ", "r", "e", "s", "p", "o", "n", "s", "e", " ", "w", "a", "s", " ", "r", "e", "c", "e", "i", "v", "e", "d", ".">>
TxtSynthFailed ==
    <<"S", "y", "n", "t", "h", "e", "s", "i", "s", " ", "f", "a", "i", "l", "e", "d", " ", "w", "i", "t", "h", " ", "e", "r", "r", "o", "r", ":", " ", "x">>

\* what judge_debate can return: the agent's final text, or the fallback
JudgeReplies ==
    {TxtNo, TxtNoVerdict, TxtNotATie, TxtBull, TxtBearCap, TxtBearBeatsBull,
     TxtTie, TxtUnsure, Empty}

\* what the judging agent can say in a final response
JudgeTexts == JudgeReplies \ {TxtNoVerdict}

\* what get_bullish_research / get_bearish_research return (never raise)
BullReplies == {TxtBullCase}

BearReplies == {TxtBearCase}

-----------------------------------------------------------------------------
(* researcher_debate.py *)

Entry(role, content) == [role |-> role, content |-> content]

\* a message store that keeps only the newest entry
add_message_fresh(h, role, content) == <<Entry(role, content)>>

\* a message store that puts the newest entry first
add_message_front(h, role, content) == <<Entry(role, content)>> \o h

\* DebateState.add_message
add_message(h, role, content) == Append(h, Entry(role, content))

\* the tokens debate_router looks for
VerdictTokens == {<<"b", "u", "l", "l">>, <<"b", "e", "a", "r">>, <<"t", "i", "e">>}

NoPrefix == <<"n", "o">>

\* debate_router without its test for a conclusive verdict
debate_router_no_tokens(v, r, m, t) ==
    IF v # None /\ StartsWith(Lower(v), NoPrefix) THEN "bull"
    ELSE IF r >= m THEN "end"
    ELSE t

\* debate_router: the route returned for a state
debate_router(v, r, m, t) ==
    IF v # None /\ StartsWith(Lower(v), NoPrefix) THEN "bull"
    ELSE IF v # None /\ (\E x \in VerdictTokens : Contains(Lower(v), x)) THEN "end"
    ELSE IF r >= m THEN "end"
    ELSE t

\* the conditional edge leaving each node
ConditionalEdge(n, v, r, m, t) ==
    CASE n = "bull" -> "bear"
      [] n = "bear" -> "judge"
      [] n = "judge" -> debate_router(v, r, m, t)

\* a path map that sends the judge's restart to the bear node
PathMapRestartToBear(n) ==
    CASE n = "bull" -> [x \in {"bear"} |-> x]
      [] n = "bear" -> [x \in {"judge"} |-> x]
      [] n = "judge" -> [x \in {"bull", "end"} |-> IF x = "bull" THEN "bear" ELSE x]

\* a path map that sends the bear's edge to the end node
PathMapBearToEnd(n) ==
    CASE n = "bull" -> [x \in {"bear"} |-> x]
      [] n = "bear" -> [x \in {"judge"} |-> "end"]
      [] n = "judge" -> [x \in {"bull", "end"} |-> x]

\* the path map given to add_conditional_edges for each node
PathMap(n) ==
    CASE n = "bull" -> [x \in {"bear"} |-> x]
      [] n = "bear" -> [x \in {"judge"} |-> x]
      [] n = "judge" -> [x \in {"bull", "end"} |-> x]

\* the node the graph runs next; a route missing from the path map is a KeyError
Target(n, rt) == IF rt \in DOMAIN PathMap(n) THEN PathMap(n)[rt] ELSE "raised"

TargetErr(n, rt) == IF rt \in DOMAIN PathMap(n) THEN "none" ELSE "KeyError"

\* the f-string that names a session: base, "_", company
SessionId(base, company) == base \o <<"_">> \o company

TraderSessionBase ==
    <<"t", "r", "a", "d", "e", "r", "_", "s", "e", "s", "s", "i", "o", "n">>
ReflectionSessionBase ==
    <<"r", "e", "f", "l", "e", "c", "t", "i", "o", "n", "_", "s", "e", "s", "s", "i", "o", "n">>
JudgeSessionBase ==
    <<"d", "e", "b", "a", "t", "e", "_", "j", "u", "d", "g", "e", "_", "s", "e", "s", "s", "i", "o", "n">>

\* how many invocations of agent a the sequence cs holds
Invocations(cs, a) == Cardinality({i \in 1..Len(cs) : cs[i].agent = a})

\* the DebateState fields a debate is created with
DebateContext(tk, reports) ==
    [ ticker |-> tk,
      technical |-> reports["technical_report"],
      sentiment |-> reports["sentiment_report"],
      news |-> reports["news_report"],
      fundamentals |-> reports["fundamentals_report"] ]

\* bull_node, lines 125-131: the arguments of get_bullish_research
BullCall(ctx) ==
    [ agent |-> "bull",
      args |-> [ ticker_symbol |-> ctx.ticker,
                 market_data |-> ctx.technical,
                 sentiment_data |-> ctx.sentiment,
                 news_data |-> ctx.news,
                 fundamentals_data |-> ctx.fundamentals ] ]

\* bear_node, lines 140-146: the arguments of get_bearish_research
BearCall(ctx) ==
    [ agent |-> "bear",
      args |-> [ ticker_symbol |-> ctx.ticker,
                 technical_analysis_data |-> ctx.technical,
                 sentiment_data |-> ctx.sentiment,
                 news_data |-> ctx.news,
                 fundamentals_data |-> ctx.fundamentals ] ]

\* judge_node, lines 154-156: a new DebateJudge, with a session service of its
\* own, is handed the ticker and the history
JudgeCall(ctx, h, n) ==
    [ agent |-> "judge",
      service |-> <<"judge", n>>,
      session_id |-> SessionId(JudgeSessionBase, ctx.ticker),
      args |-> [ ticker |-> ctx.ticker, debate_history |-> h ] ]

\* a judge whose fallback is the empty text
judge_debate_empty(end, text) == IF end = "final" THEN text ELSE Empty

\* judge_debate, lines 111-119: the final response's text, or the fallback
judge_debate(end, text) == IF end = "final" THEN text ELSE TxtNoVerdict

\* a round counter that counts a bear turn twice
NextRoundTwice(r) == r + 2

\* bear_node: state.round += 1
NextRound(r) == r + 1

bull_node ==
    /\ pc = "bull"
    /\ round < RoundCap
    /\ calls' = Append(calls, BullCall(context))
    /\ \E c \in BullReplies : history' = add_message(history, "bull", c)
    /\ turn' = "bear"
    /\ route' = ConditionalEdge("bull", judge_verdict, round, max_rounds, "bear")
    /\ pc' = Target("bull", route')
    /\ err' = TargetErr("bull", route')
    /\ UNCHANGED <<context, round, max_rounds, judge_verdict>>
    /\ UNCHANGED <<fanVars, loopLocals, riskVars, twoVars, newsVars>>

bear_node ==
    /\ pc = "bear"
    /\ calls' = Append(calls, BearCall(context))
    /\ \E c \in BearReplies : history' = add_message(history, "bear", c)
    /\ turn' = "judge"
    /\ round' = NextRound(round)
    /\ route' = ConditionalEdge("bear", judge_verdict, round', max_rounds, "judge")
    /\ pc' = Target("bear", route')
    /\ err' = TargetErr("bear", route')
    /\ UNCHANGED <<context, max_rounds, judge_verdict>>
    /\ UNCHANGED <<fanVars, loopLocals, riskVars, twoVars, newsVars>>

\* judge_node followed by its conditional edge, debate_router
judge_node ==
    /\ pc = "judge"
    /\ \E e \in {"final", "no_final"} :
       \E t \in (IF e = "final" THEN JudgeTexts ELSE {Empty}) :
         /\ calls' = Append(calls, JudgeCall(context, history,
                                             Invocations(calls, "judge") + 1)
                                       @@ [outcome |-> e])
         /\ judge_verdict' = judge_debate(e, t)
         /\ history' = add_message(history, "judge", judge_verdict')
    /\ route' = ConditionalEdge("judge", judge_verdict', round, max_rounds, turn)
    /\ pc' = Target("judge", route')
    /\ err' = TargetErr("judge", route')
    /\ UNCHANGED <<context, turn, round, max_rounds>>
    /\ UNCHANGED <<fanVars, loopLocals, riskVars, twoVars, newsVars>>

\* judge_debate has no handler: a failing session or runner call ends the run
judge_raises ==
    /\ pc = "judge"
    /\ pc' = "raised"
    /\ err' = "InvocationError"
    /\ UNCHANGED <<debateVars, fanVars, loopVars, riskVars, twoVars, newsVars>>

\* debate_end, the edge to END, and the return of run_debate_simulation
debate_end ==
    /\ pc = "end"
    /\ pc' = "debate_returned"
    /\ UNCHANGED <<err, debateVars, fanVars, loopVars, riskVars, twoVars, newsVars>>

DebateNext == bull_node \/ bear_node \/ judge_node \/ judge_raises \/ debate_end

-----------------------------------------------------------------------------
(* workflow.py: run_parallel_analysts *)

Kinds ==
    {"bullish_report", "bearish_report", "technical_report",
     "sentiment_report", "news_report", "fundamentals_report"}

\* a future that has not completed yet
Pending == <<"<Pending>">>

\* every producer catches its own exceptions and returns a text either way
ReportReplies == {TxtOK, TxtFailed}

\* one task of the pool completes, in any order; a producer that never
\* responds never completes its task
task_done(k) ==
    /\ pc = "fanout"
    /\ k \notin silent
    /\ futures[k] = Pending
    /\ \E t \in ReportReplies : futures' = [futures EXCEPT ![k] = t]
    /\ UNCHANGED <<pc, err, analyst_reports, silent, ticker, debateVars, loopVars, riskVars, twoVars, newsVars>>

\* the order in which the six futures are handed to asyncio.gather
Submitted ==
    <<"bullish_report", "bearish_report", "technical_report",
      "sentiment_report", "news_report", "fundamentals_report">>

\* a join that returns as soon as one task is done
AnyDone(f) == \E k \in Kinds : f[k] # Pending

\* a join that gives up as soon as one task has failed
AllDoneOrOneFailed(f) ==
    \/ \A k \in Kinds : f[k] # Pending
    \/ \E k \in Kinds : f[k] = TxtFailed

\* asyncio.gather without a timeout: it returns once all six are done
AllDone(f) == \A k \in Kinds : f[k] # Pending

\* the list asyncio.gather returns: the results in the order of its arguments
GatherResults(f) == [i \in 1..Len(Submitted) |-> f[Submitted[i]]]

\* the index into results that the returned dict reads for each key
ResultIndexShifted(k) ==
    CASE k = "bullish_report" -> 1
      [] k = "bearish_report" -> 2
      [] k = "technical_report" -> 3
      [] k = "sentiment_report" -> 4
      [] k = "news_report" -> 5
      [] k = "fundamentals_report" -> 0

ResultIndex(k) ==
    CASE k = "bullish_report" -> 0
      [] k = "bearish_report" -> 1
      [] k = "technical_report" -> 2
      [] k = "sentiment_report" -> 3
      [] k = "news_report" -> 4
      [] k = "fundamentals_report" -> 5

\* lines 28-35: the returned dict (results is indexed from 0 in the code)
Bundle(results) == [k \in Kinds |-> results[ResultIndex(k) + 1]]

\* workflow then starts the debate with a new DebateState and max_rounds=4
WorkflowMaxRounds == 4

gather ==
    /\ pc = "fanout"
    /\ AllDone(futures)
    /\ analyst_reports' = Bundle(GatherResults(futures))
    /\ context' = DebateContext(ticker, analyst_reports')
    /\ history' = <<>>
    /\ turn' = "bull"
    /\ round' = 0
    /\ max_rounds' = WorkflowMaxRounds
    /\ judge_verdict' = None
    /\ pc' = "bull"
    /\ UNCHANGED <<err, futures, silent, ticker, route, loopVars, riskVars, twoVars, newsVars>>

\* the keys of the dict as_dict returns
AsDictKeys ==
    {"ticker", "technical", "sentiment", "news", "fundamentals", "history",
     "turn", "round", "max_rounds", "judge_verdict"}

\* an as_dict that leaves the verdict out
as_dict_no_verdict(s) == [k \in AsDictKeys \ {"judge_verdict"} |-> s[k]]

\* DebateState.as_dict, lines 32-44: one key per attribute
as_dict(s) ==
    [k \in AsDictKeys |->
        CASE k = "ticker" -> s.ticker
          [] k = "technical" -> s.technical
          [] k = "sentiment" -> s.sentiment
          [] k = "news" -> s.news
          [] k = "fundamentals" -> s.fundamentals
          [] k = "history" -> s.history
          [] k = "turn" -> s.turn
          [] k = "round" -> s.round
          [] k = "max_rounds" -> s.max_rounds
          [] k = "judge_verdict" -> s.judge_verdict]

\* from_dict: d.get("max_rounds", 4)
DefaultMaxRounds == 4

\* dict.get(key, default)
DictGet(d, k, default) == IF k \in DOMAIN d THEN d[k] ELSE default

\* Python's None where a list of entries is expected
NoHistory == <<[role |-> "<None>", content |-> <<>>]>>

\* DebateState.__init__, line 18: history if history is not None else []
InitHistory(h) == IF h = NoHistory THEN <<>> ELSE h

\* DebateState.from_dict, lines 46-59, through DebateState.__init__
from_dict(d) ==
    [ ticker |-> d["ticker"],
      technical |-> d["technical"],
      sentiment |-> d["sentiment"],
      news |-> d["news"],
      fundamentals |-> d["fundamentals"],
      history |-> InitHistory(DictGet(d, "history", <<>>)),
      turn |-> DictGet(d, "turn", "bull"),
      round |-> DictGet(d, "round", 0),
      max_rounds |-> DictGet(d, "max_rounds", DefaultMaxRounds),
      judge_verdict |-> DictGet(d, "judge_verdict", None) ]

\* the DebateState the nodes of the graph hand on
DebateStateNow ==
    [ ticker |-> context.ticker,
      technical |-> context.technical,
      sentiment |-> context.sentiment,
      news |-> context.news,
      fundamentals |-> context.fundamentals,
      history |-> history,
      turn |-> turn,
      round |-> round,
      max_rounds |-> max_rounds,
      judge_verdict |-> judge_verdict ]

\* the attributes a DebateState object has
DebateStateFields ==
    {"ticker", "technical", "sentiment", "news", "fundamentals", "history",
     "turn", "round", "max_rounds", "judge_verdict"}

\* workflow line 47: debate_synthesis = debate_state.synthesis, an attribute
\* no DebateState has
read_synthesis ==
    /\ pc = "debate_returned"
    /\ "synthesis" \notin DebateStateFields
    /\ pc' = "raised"
    /\ err' = "AttributeError"
    /\ UNCHANGED <<debateVars, fanVars, loopVars, riskVars, twoVars, newsVars>>

-----------------------------------------------------------------------------
(* workflow.py: the decision loop, lines 58-112 *)

MAX_RETRIES == 2

NoResult == [returned |-> FALSE]

\* the debate synthesis text the loop is entered with
SynthesisTexts == {TxtBullCase}

\* what trade_decision can return: the agent's final text, or "" when there is none
DecisionReplies == {TxtBuy, TxtHold, TxtSell, TxtMaybe, Empty}

\* what reflect can return: the agent's final text, or "" when there is none
ReflectionReplies == {TxtNoHallucination, TxtHallucinationDetected, TxtSupported, Empty}

\* how an invocation that does not raise can end: the event stream holds a
\* final response, or it ends without one
RunEnds == {"final", "no_final"}

\* what the validating agent can say in a final response
ReflectionTexts == ReflectionReplies \ {Empty}

\* a validator whose fallback reports a hallucination
reflect_async_flagging(end, text) ==
    IF end = "final" THEN text ELSE TxtHallucinationDetected

\* reflect_async, lines 74-80: the final response's text, or "" after the loop
reflect_async(end, text) == IF end = "final" THEN text ELSE Empty

HallucinationWord ==
    <<"H", "A", "L", "L", "U", "C", "I", "N", "A", "T", "I", "O", "N">>

\* the first conjunct of the while condition, line 83
Flagged(reflection) == Contains(Upper(reflection), HallucinationWord)

\* the while condition with the budget test off by one
LoopContinuesOffByOne(reflection, retries) ==
    Flagged(reflection) /\ retries <= MAX_RETRIES

\* the while condition, line 83
LoopContinues(reflection, retries) == Flagged(reflection) /\ retries < MAX_RETRIES

\* the risk synthesis text the loop is entered with (the local of line 50)
RiskSynthesisTexts == {TxtHedge}

\* lines 64, 75, 88, 98: the market report handed to both agents
MarketReport(reports) ==
    IF "market_report" \in DOMAIN reports
    THEN reports["market_report"]
    ELSE reports["technical_report"]

\* the binding of positional arguments to parameters, in order
BindPositional(params, positional) ==
    [ n \in {params[i] : i \in 1..Len(positional)} |->
        positional[CHOOSE i \in 1..Len(positional) : params[i] = n] ]

\* TraderAgent.trade_decision_async: its parameters after the company, in order
TradeDecisionAsyncParams ==
    <<"research_report", "market_report", "sentiment_report", "news_report",
      "risk_report", "fundamentals_report">>

\* TraderAgent.trade_decision, lines 87-95: what it forwards, in order
TradeDecisionForward(args) ==
    <<args.research_report, args.market_report, args.sentiment_report,
      args.news_report, args.fundamentals_report, args.risk_report>>

\* the labelled slots of the decision prompt, lines 51-58: each label holds
\* the parameter of its name
TraderPrompt(args) == BindPositional(TradeDecisionAsyncParams, TradeDecisionForward(args))

\* ReflectionAgent.reflect_async: its parameters after the company, in order
ReflectAsyncParams ==
    <<"trader_decision", "research_report", "market_report", "sentiment_report",
      "news_report", "fundamentals_report", "risk_report">>

\* ReflectionAgent.reflect, lines 93-102: what it forwards, in order
ReflectForward(args) ==
    <<args.trader_decision, args.research_report, args.market_report,
      args.sentiment_report, args.news_report, args.fundamentals_report,
      args.risk_report>>

\* the labelled slots of the validation prompt, lines 55-63
ReflectPrompt(args) == BindPositional(ReflectAsyncParams, ReflectForward(args))

\* lines 61-69 and 85-93: the arguments of trader.trade_decision
TraderArgs(synthesis, reports, risk) ==
    [ research_report |-> synthesis,
      market_report |-> MarketReport(reports),
      sentiment_report |-> reports["sentiment_report"],
      news_report |-> reports["news_report"],
      fundamentals_report |-> reports["fundamentals_report"],
      risk_report |-> risk ]

\* lines 71-80 and 94-103: the arguments of reflection.reflect
ReflectArgs(decision, synthesis, reports, risk) ==
    [ trader_decision |-> decision,
      research_report |-> synthesis,
      market_report |-> MarketReport(reports),
      sentiment_report |-> reports["sentiment_report"],
      news_report |-> reports["news_report"],
      fundamentals_report |-> reports["fundamentals_report"],
      risk_report |-> risk ]

\* TraderAgent.setup_session, line 28
TraderSession(company) == SessionId(TraderSessionBase, company)

\* ReflectionAgent.setup_session, line 31
ReflectionSession(company) == SessionId(ReflectionSessionBase, company)

\* one trade_decision call on the TraderAgent of line 58: its arguments, the
\* session it creates on that agent's session service, and its prompt
TraderCall(company, synthesis, reports, risk) ==
    [ agent |-> "trader",
      service |-> <<"trader", 1>>,
      session_id |-> TraderSession(company),
      args |-> TraderArgs(synthesis, reports, risk),
      prompt |-> TraderPrompt(TraderArgs(synthesis, reports, risk)) ]

\* a validation that is handed the first decision of the run
ReflectCallStale(company, decision, synthesis, reports, risk) ==
    [ agent |-> "reflection",
      service |-> <<"reflection", 1>>,
      session_id |-> ReflectionSession(company),
      args |-> ReflectArgs(decisions[1], synthesis, reports, risk),
      prompt |-> ReflectPrompt(ReflectArgs(decisions[1], synthesis, reports, risk)) ]

\* one reflect call on the ReflectionAgent of line 59
ReflectCall(company, decision, synthesis, reports, risk) ==
    [ agent |-> "reflection",
      service |-> <<"reflection", 1>>,
      session_id |-> ReflectionSession(company),
      args |-> ReflectArgs(decision, synthesis, reports, risk),
      prompt |-> ReflectPrompt(ReflectArgs(decision, synthesis, reports, risk)) ]

\* lines 60-69: risk_report = None, then the first decision
first_decision ==
    /\ pc = "decide0"
    /\ risk_report' = None
    /\ calls' = Append(calls, TraderCall(ticker, debate_synthesis, analyst_reports, risk_report'))
    /\ \E d \in DecisionReplies :
         /\ trader_decision' = d
         /\ decisions' = Append(decisions, d)
    /\ pc' = "reflect0"
    /\ UNCHANGED <<err, debate_synthesis, reflections, reflection_result,
                   retry_count, result>>
    /\ UNCHANGED <<debateVars, fanVars, riskVars, twoVars, newsVars>>

\* lines 71-83: the first validation, retry_count = 0 and the first loop test
first_reflection ==
    /\ pc = "reflect0"
    /\ \E e \in RunEnds : \E t \in (IF e = "final" THEN ReflectionTexts ELSE {Empty}) :
         /\ calls' = Append(calls, ReflectCall(ticker, trader_decision, debate_synthesis,
                                               analyst_reports, risk_report)
                                       @@ [outcome |-> e])
         /\ reflection_result' = reflect_async(e, t)
         /\ reflections' = Append(reflections, reflection_result')
    /\ retry_count' = 0
    /\ pc' = IF LoopContinues(reflection_result', retry_count') THEN "decide" ELSE "return"
    /\ UNCHANGED <<err, debate_synthesis, decisions, trader_decision, result,
                   risk_report>>
    /\ UNCHANGED <<debateVars, fanVars, riskVars, twoVars, newsVars>>

\* lines 84-93: a regenerated decision
retry_decision ==
    /\ pc = "decide"
    /\ risk_report' = None
    /\ calls' = Append(calls, TraderCall(ticker, debate_synthesis, analyst_reports, risk_report'))
    /\ \E d \in DecisionReplies :
         /\ trader_decision' = d
         /\ decisions' = Append(decisions, d)
    /\ pc' = "reflect"
    /\ UNCHANGED <<err, debate_synthesis, reflections, reflection_result,
                   retry_count, result>>
    /\ UNCHANGED <<debateVars, fanVars, riskVars, twoVars, newsVars>>

\* lines 94-104 and the next loop test
retry_reflection ==
    /\ pc = "reflect"
    /\ \E e \in RunEnds : \E t \in (IF e = "final" THEN ReflectionTexts ELSE {Empty}) :
         /\ calls' = Append(calls, ReflectCall(ticker, trader_decision, debate_synthesis,
                                               analyst_reports, risk_report)
                                       @@ [outcome |-> e])
         /\ reflection_result' = reflect_async(e, t)
         /\ reflections' = Append(reflections, reflection_result')
    /\ retry_count' = retry_count + 1
    /\ pc' = IF LoopContinues(reflection_result', retry_count') THEN "decide" ELSE "return"
    /\ UNCHANGED <<err, debate_synthesis, decisions, trader_decision, result,
                   risk_report>>
    /\ UNCHANGED <<debateVars, fanVars, riskVars, twoVars, newsVars>>

\* trade_decision and reflect have no handler: a failing call ends the run
invocation_raises ==
    /\ pc \in {"decide0", "reflect0", "decide", "reflect"}
    /\ pc' = "raised"
    /\ err' = "InvocationError"
    /\ UNCHANGED <<loopVars, debateVars, fanVars, riskVars, twoVars, newsVars>>

\* a returned dict whose bundle has lost the bearish report
ResultDictNoBearish(reports, synthesis, decision, reflection) ==
    [ returned |-> TRUE,
      analyst_reports |-> [reports EXCEPT !["bearish_report"] = Empty],
      debate_synthesis |-> synthesis,
      risk_report |-> None,
      trader_decision |-> decision,
      reflection |-> reflection ]

\* lines 106-112: the returned dict (risk_report was set to None on line 60)
ResultDict(reports, synthesis, decision, reflection) ==
    [ returned |-> TRUE,
      analyst_reports |-> reports,
      debate_synthesis |-> synthesis,
      risk_report |-> None,
      trader_decision |-> decision,
      reflection |-> reflection ]

workflow_return ==
    /\ pc = "return"
    /\ result' = ResultDict(analyst_reports, debate_synthesis, trader_decision,
                             reflection_result)
    /\ pc' = "returned"
    /\ UNCHANGED <<err, debate_synthesis, decisions, reflections, trader_decision,
                   reflection_result, retry_count, risk_report, calls>>
    /\ UNCHANGED <<debateVars, fanVars, riskVars, twoVars, newsVars>>

LoopNext ==
    \/ first_decision
    \/ first_reflection
    \/ retry_decision
    \/ retry_reflection
    \/ invocation_raises
    \/ workflow_return

-----------------------------------------------------------------------------
(* Risk_Management: the stance chain of synthesizer.py, lines 120-153 *)

\* how one agent invocation can end: a final response, no session, a run
\* without a final response, or an exception
InvocationOutcomes == {"final", "no_session", "no_final", "error"}

\* what a stance agent can say in a final response
StanceTexts == {TxtGoLong, TxtStayOut}

\* what the synthesis agent can say in a final response
SynthesisReplies == {TxtBalanced}

\* a debate method whose failures give no value at all
DebateResultAbsent(outcome, text) ==
    IF outcome = "final" THEN text ELSE None

\* debate() of the three stance agents: every way out returns a text
DebateResult(outcome, text) ==
    CASE outcome = "no_session" -> TxtDebateNoSession
      [] outcome = "final" -> text
      [] outcome = "no_final" -> TxtDebateNoFinal
      [] outcome = "error" -> TxtDebateFailed

\* RiskSynthesizer.synthesize: every way out returns a text
SynthesisResult(outcome, text) ==
    CASE outcome = "no_session" -> TxtSynthNoSession
      [] outcome = "final" -> text
      [] outcome = "no_final" -> TxtSynthNoFinal
      [] outcome = "error" -> TxtSynthFailed

\* line 138: the aggressive stance gets the three reports; its other slots
\* keep their defaults
AggressiveCall(inputs, outcome) ==
    [ agent |-> "aggressive",
      outcome |-> outcome,
      args |-> [ sentiment_report |-> inputs.sentiment_report,
                 news_report |-> inputs.news_report,
                 fundamentals_report |-> inputs.fundamentals_report,
                 safe_response |-> Empty,
                 neutral_response |-> Empty,
                 history |-> Empty ] ]

\* a neutral call that puts the aggressive text into the safe slot
NeutralCallSwapped(inputs, risky, outcome) ==
    [ agent |-> "neutral",
      outcome |-> outcome,
      args |-> [ sentiment_report |-> inputs.sentiment_report,
                 news_report |-> inputs.news_report,
                 fundamentals_report |-> inputs.fundamentals_report,
                 current_risky_response |-> Empty,
                 current_safe_response |-> risky,
                 history |-> Empty ] ]

\* line 139: the fifth positional argument is current_risky_response
NeutralCall(inputs, risky, outcome) ==
    [ agent |-> "neutral",
      outcome |-> outcome,
      args |-> [ sentiment_report |-> inputs.sentiment_report,
                 news_report |-> inputs.news_report,
                 fundamentals_report |-> inputs.fundamentals_report,
                 current_risky_response |-> risky,
                 current_safe_response |-> Empty,
                 history |-> Empty ] ]

\* line 140: the fifth and sixth positional arguments
ConservativeCall(inputs, risky, neutral, outcome) ==
    [ agent |-> "conservative",
      outcome |-> outcome,
      args |-> [ sentiment_report |-> inputs.sentiment_report,
                 news_report |-> inputs.news_report,
                 fundamentals_report |-> inputs.fundamentals_report,
                 current_risky_response |-> risky,
                 current_neutral_response |-> neutral,
                 history |-> Empty ] ]

\* lines 143-150: the keyword arguments of get_synthesis
SynthesisCall(inputs, risky, neutral, safe, outcome) ==
    [ agent |-> "synthesis",
      outcome |-> outcome,
      args |-> [ aggressive_response |-> risky,
                 neutral_response |-> neutral,
                 safe_response |-> safe,
                 trader_plan |-> inputs.trader_plan,
                 history |-> TxtChainHistory ] ]

\* line 138
aggressive_stance ==
    /\ pc = "aggressive"
    /\ \E o \in InvocationOutcomes : \E t \in StanceTexts :
         /\ calls' = Append(calls, AggressiveCall(chain_inputs, o))
         /\ risky_response' = DebateResult(o, t)
    /\ pc' = "neutral"
    /\ UNCHANGED <<err, chain_inputs, neutral_response, safe_response, synthesis_result>>
    /\ UNCHANGED <<debate_synthesis, decisions, reflections, trader_decision,
                   reflection_result, retry_count, result, risk_report>>
    /\ UNCHANGED <<debateVars, fanVars, twoVars, newsVars>>

\* line 139
neutral_stance ==
    /\ pc = "neutral"
    /\ \E o \in InvocationOutcomes : \E t \in StanceTexts :
         /\ calls' = Append(calls, NeutralCall(chain_inputs, risky_response, o))
         /\ neutral_response' = DebateResult(o, t)
    /\ pc' = "conservative"
    /\ UNCHANGED <<err, chain_inputs, risky_response, safe_response, synthesis_result>>
    /\ UNCHANGED <<debate_synthesis, decisions, reflections, trader_decision,
                   reflection_result, retry_count, result, risk_report>>
    /\ UNCHANGED <<debateVars, fanVars, twoVars, newsVars>>

\* line 140
conservative_stance ==
    /\ pc = "conservative"
    /\ \E o \in InvocationOutcomes : \E t \in StanceTexts :
         /\ calls' = Append(calls, ConservativeCall(chain_inputs, risky_response,
                                                    neutral_response, o))
         /\ safe_response' = DebateResult(o, t)
    /\ pc' = "synthesis"
    /\ UNCHANGED <<err, chain_inputs, risky_response, neutral_response, synthesis_result>>
    /\ UNCHANGED <<debate_synthesis, decisions, reflections, trader_decision,
                   reflection_result, retry_count, result, risk_report>>
    /\ UNCHANGED <<debateVars, fanVars, twoVars, newsVars>>

\* lines 143-150
chain_synthesis ==
    /\ pc = "synthesis"
    /\ \E o \in InvocationOutcomes : \E t \in SynthesisReplies :
         /\ calls' = Append(calls, SynthesisCall(chain_inputs, risky_response,
                                                 neutral_response, safe_response, o))
         /\ synthesis_result' = SynthesisResult(o, t)
    /\ pc' = "chain_done"
    /\ UNCHANGED <<err, chain_inputs, risky_response, neutral_response, safe_response>>
    /\ UNCHANGED <<debate_synthesis, decisions, reflections, trader_decision,
                   reflection_result, retry_count, result, risk_report>>
    /\ UNCHANGED <<debateVars, fanVars, twoVars, newsVars>>

RiskNext ==
    \/ aggressive_stance
    \/ neutral_stance
    \/ conservative_stance
    \/ chain_synthesis

-----------------------------------------------------------------------------
(* workflow.py: the risk stage, lines 49-56 *)

\* the parameters of RiskSynthesizer.synthesize after self, in order
SynthesizeParams ==
    <<"ticker_symbol", "aggressive_response", "neutral_response", "safe_response",
      "trader_plan", "history">>

\* the parameters of synthesize that have a default
SynthesizeDefaults == {"history"}

\* lines 51-54: the positional arguments of the call
StagePositional(reports) ==
    <<TxtTicker, reports["sentiment_report"], reports["news_report"],
      reports["fundamentals_report"]>>

\* line 55: the keyword arguments of the call
StageKeywords == [history |-> None]

\* the parameters a call binds: the first ones by position, the others by name
BoundNames(params, positional, keywords) ==
    {params[i] : i \in 1..Len(positional)} \cup DOMAIN keywords

\* the value each bound parameter receives
BoundArgs(params, positional, keywords) ==
    [ n \in BoundNames(params, positional, keywords) |->
        IF n \in DOMAIN keywords
        THEN keywords[n]
        ELSE positional[CHOOSE i \in 1..Len(positional) : params[i] = n] ]

\* the required parameters a call leaves without a value
MissingArgs(params, defaults, positional, keywords) ==
    ({params[i] : i \in 1..Len(params)} \ defaults)
        \ BoundNames(params, positional, keywords)

\* what calling an async function returns when it is not awaited
Coroutine == <<"<coroutine>">>

\* line 50: risk_synth.synthesize(...), called directly and not awaited
workflow_risk_stage ==
    /\ pc = "risk"
    /\ LET positional == StagePositional(analyst_reports)
           missing == MissingArgs(SynthesizeParams, SynthesizeDefaults,
                                  positional, StageKeywords)
       IN  /\ calls' = Append(calls,
                 [ agent |-> "synthesis",
                   outcome |-> IF missing = {} THEN "coroutine" ELSE "raised",
                   args |-> BoundArgs(SynthesizeParams, positional, StageKeywords) ])
           /\ IF missing = {}
              THEN /\ risk_report' = Coroutine
                   /\ pc' = "decide0"
                   /\ err' = err
              ELSE /\ risk_report' = risk_report
                   /\ pc' = "raised"
                   /\ err' = "TypeError"
    /\ UNCHANGED <<debate_synthesis, decisions, reflections, trader_decision,
                   reflection_result, retry_count, result>>
    /\ UNCHANGED <<debateVars, fanVars, riskVars, twoVars, newsVars>>

-----------------------------------------------------------------------------
(* workflow.py: two calls of run_parallel_analysts, each in a thread of its own *)

TxtTickerB ==
    <<"M", "S", "F", "T">>

RunIds == {1, 2}

Tickers == {TxtTicker, TxtTickerB}

BullSessionBase ==
    <<"b", "u", "l", "l", "_", "r", "e", "s", "e", "a", "r", "c", "h", "_", "s", "e", "s", "s", "i", "o", "n">>
BearSessionBase ==
    <<"b", "e", "a", "r", "_", "r", "e", "s", "e", "a", "r", "c", "h", "_", "s", "e", "s", "s", "i", "o", "n">>
TechnicalSessionBase ==
    <<"t", "e", "c", "h", "n", "i", "c", "a", "l", "_", "a", "n", "a", "l", "y", "s", "i", "s", "_", "s", "e", "s", "s", "i", "o", "n">>
SentimentSessionBase ==
    <<"s", "e", "n", "t", "i", "m", "e", "n", "t", "_", "a", "n", "a", "l", "y", "s", "i", "s", "_", "s", "e", "s", "s", "i", "o", "n">>
NewsSessionBase ==
    <<"n", "e", "w", "s", "_", "a", "n", "a", "l", "y", "s", "i", "s", "_", "s", "e", "s", "s", "i", "o", "n">>
FundamentalSessionBase ==
    <<"f", "u", "n", "d", "a", "m", "e", "n", "t", "a", "l", "_", "a", "n", "a", "l", "y", "s", "i", "s", "_", "s", "e", "s", "s", "i", "o", "n">>
TxtReportOn ==
    <<"R", "e", "p", "o", "r", "t", " ", "o", "n", " ">>

\* session_id_base of the agent that produces each report kind
SessionBase(k) ==
    CASE k = "bullish_report" -> BullSessionBase
      [] k = "bearish_report" -> BearSessionBase
      [] k = "technical_report" -> TechnicalSessionBase
      [] k = "sentiment_report" -> SentimentSessionBase
      [] k = "news_report" -> NewsSessionBase
      [] k = "fundamentals_report" -> FundamentalSessionBase

\* the collaborator's response to a producer: a text about the ticker it is asked about
Response(tk, k) == TxtReportOn \o tk

\* the objects a call of run_parallel_analysts constructs, in order: the
\* executor, the event loop, and one session service per agent
NewObjects ==
    <<[type |-> "ThreadPoolExecutor"], [type |-> "event_loop", closed |-> FALSE]>>
        \o [i \in 1..Len(Submitted) |-> [type |-> "InMemorySessionService", sessions |-> {}]]

\* agents that all use the session service the first call constructed
SharedServiceOf(h, k) == 2 + ResultIndex(k) + 1

\* the identity of the session service of the agent constructed for kind k,
\* on a heap that holds the objects of h already
ServiceOf(h, k) == Len(h) + 2 + ResultIndex(k) + 1

\* a run that has not started
NewRun(tk) ==
    [ ticker |-> tk, pc |-> "start", executor |-> 0, loop |-> 0,
      services |-> [k \in Kinds |-> 0],
      keys |-> [k \in Kinds |-> None],
      futures |-> [k \in Kinds |-> Pending],
      bundle |-> None ]

\* lines 15-23: the executor, the loop made current for the calling thread,
\* and the six agents
run_start(r) ==
    /\ pc = "runs"
    /\ runs[r].pc = "start"
    /\ heap' = heap \o NewObjects
    /\ current_loop' = [current_loop EXCEPT ![r] = Len(heap) + 2]
    /\ runs' = [runs EXCEPT ![r].pc = "fanout",
                            ![r].executor = Len(heap) + 1,
                            ![r].loop = Len(heap) + 2,
                            ![r].services = [k \in Kinds |-> ServiceOf(heap, k)]]
    /\ UNCHANGED <<pc, err, debateVars, fanVars, loopVars, riskVars, newsVars>>

\* one task: the agent creates its session on its own service and returns the
\* collaborator's response
run_task(r, k) ==
    /\ pc = "runs"
    /\ runs[r].pc = "fanout"
    /\ runs[r].futures[k] = Pending
    /\ LET sid == SessionId(SessionBase(k), runs[r].ticker)
           svc == runs[r].services[k]
       IN  /\ heap' = [heap EXCEPT ![svc].sessions = @ \cup {sid}]
           /\ runs' = [runs EXCEPT ![r].keys[k] = sid,
                                   ![r].futures[k] = Response(runs[r].ticker, k)]
    /\ UNCHANGED <<pc, err, current_loop, debateVars, fanVars, loopVars, riskVars, newsVars>>

\* lines 24-35: the join, loop.close() and the returned dict
run_gather(r) ==
    /\ pc = "runs"
    /\ runs[r].pc = "fanout"
    /\ AllDone(runs[r].futures)
    /\ heap' = [heap EXCEPT ![runs[r].loop].closed = TRUE]
    /\ runs' = [runs EXCEPT ![r].pc = "done",
                            ![r].bundle = Bundle(GatherResults(runs[r].futures))]
    /\ UNCHANGED <<pc, err, current_loop, debateVars, fanVars, loopVars, riskVars, newsVars>>

TwoRunNext ==
    \E r \in RunIds :
        \/ run_start(r)
        \/ \E k \in Kinds : run_task(r, k)
        \/ run_gather(r)

-----------------------------------------------------------------------------
(* custom/sentiment_analysis_tool.py: make_request and getNewsData *)

\* while page < 2
NewsPages == 2

\* stop_after_attempt(5)
MaxAttempts == 5

\* the most result elements a page holds
MaxResultsPerPage == 2

Digits == <<"0", "1", "2", "3", "4", "5", "6", "7", "8", "9">>

IsDigit(c) == \E i \in 1..10 : Digits[i] = c

DigitValue(c) == (CHOOSE i \in 1..10 : Digits[i] = c) - 1

TwoDigits(d, i) == 10 * DigitValue(d[i]) + DigitValue(d[i + 1])

TxtIsoDate ==
    <<"2", "0", "2", "4", "-", "0", "1", "-", "0", "5">>
TxtUsDate ==
    <<"0", "1", "/", "0", "5", "/", "2", "0", "2", "4">>
TxtBadDate ==
    <<"2", "0", "2", "4", "-", "1", "3", "-", "0", "5">>

\* the date texts getNewsData is called with
DateInputs == {TxtIsoDate, TxtUsDate, TxtBadDate}

\* "-" in date
HasDash(d) == Contains(d, <<"-">>)

\* datetime.strptime(d, "%Y-%m-%d") accepts the ten-character text d
ParsesAsIso(d) ==
    /\ Len(d) = 10
    /\ d[5] = "-"
    /\ d[8] = "-"
    /\ \A i \in {1, 2, 3, 4, 6, 7, 9, 10} : IsDigit(d[i])
    /\ TwoDigits(d, 6) \in 1..12
    /\ TwoDigits(d, 9) \in 1..31

\* strftime("%m/%d/%Y") of the parsed date
Strftime(d) == SubSeq(d, 6, 7) \o <<"/">> \o SubSeq(d, 9, 10) \o <<"/">> \o SubSeq(d, 1, 4)

\* lines 38-43 for one date: strptime raises ValueError
DateRaises(d) == HasDash(d) /\ ~ParsesAsIso(d)

\* lines 38-43 for one date: the date the search url is built with
NormalizedDate(d) == IF HasDash(d) THEN Strftime(d) ELSE d

\* line 55: the while test
LoopTest(p) == IF p < NewsPages THEN "news_request" ELSE "news_return"

\* a result element: every field can be read, or reading one raises
ElementKinds == {"ok", "malformed"}

\* soup.select("div.SoaBEf") of a page
PageContents == UNION {[1..n -> ElementKinds] : n \in 0..MaxResultsPerPage}

\* how requests.get can end: it raises, or it returns a response
Responses ==
    {[raised |-> TRUE, status |-> 0, content |-> <<>>]}
        \cup {[raised |-> FALSE, status |-> st, content |-> <<>>] : st \in {429, 503}}
        \cup {[raised |-> FALSE, status |-> 200, content |-> c] : c \in PageContents}

\* a retry test that also retries an unavailable server
is_rate_limited_or_unavailable(r) == r.status \in {429, 503}

\* is_rate_limited, lines 24-25
is_rate_limited(r) == r.status = 429

\* stop_after_attempt(5), line 30
stop_after_attempt(n) == n >= MaxAttempts

Indexed(p, content) ==
    [i \in 1..Len(content) |-> [page |-> p, index |-> i, parsed |-> content[i] = "ok"]]

IsParsed(e) == e.parsed

\* lines 71-86: the elements whose fields can all be read, in page order
ItemsOf(p, content) == SelectSeq(Indexed(p, content), IsParsed)

\* lines 38-54: the two dates, news_results = [] and page = 0
normalize_dates ==
    /\ pc = "news_dates"
    /\ IF DateRaises(start_date) \/ DateRaises(end_date)
       THEN /\ pc' = "raised"
            /\ err' = "ValueError"
            /\ UNCHANGED <<start_date, end_date, page, news_results>>
       ELSE /\ start_date' = NormalizedDate(start_date)
            /\ end_date' = NormalizedDate(end_date)
            /\ news_results' = <<>>
            /\ page' = 0
            /\ pc' = LoopTest(page')
            /\ err' = err
    /\ UNCHANGED <<attempt, response, requests>>
    /\ UNCHANGED <<debateVars, fanVars, loopVars, riskVars, twoVars>>

\* one attempt of make_request under its retry decorator, lines 27-35 and 64:
\* an exception of requests.get is not retried and reaches the handler of
\* line 90; a rate-limited response is retried until the attempts are used
\* up, and then RetryError reaches the same handler
make_request ==
    /\ pc = "news_request"
    /\ attempt' = attempt + 1
    /\ \E r \in Responses :
         /\ response' = r
         /\ requests' = Append(requests, [page |-> page, attempt |-> attempt',
                                          raised |-> r.raised, status |-> r.status,
                                          content |-> r.content])
         /\ pc' = IF r.raised THEN "news_return"
                  ELSE IF is_rate_limited(r)
                       THEN (IF stop_after_attempt(attempt') THEN "news_return"
                             ELSE "news_request")
                       ELSE "news_page"
    /\ UNCHANGED <<err, start_date, end_date, page, news_results>>
    /\ UNCHANGED <<debateVars, fanVars, loopVars, riskVars, twoVars>>

\* lines 65-88: an empty page breaks; otherwise the readable elements are
\* appended, page += 1 and the while test is made
parse_page ==
    /\ pc = "news_page"
    /\ attempt' = 0
    /\ IF Len(response.content) = 0
       THEN /\ pc' = "news_return"
            /\ UNCHANGED <<page, news_results>>
       ELSE /\ news_results' = news_results \o ItemsOf(page, response.content)
            /\ page' = page + 1
            /\ pc' = LoopTest(page')
    /\ UNCHANGED <<err, start_date, end_date, response, requests>>
    /\ UNCHANGED <<debateVars, fanVars, loopVars, riskVars, twoVars>>

\* line 93: return news_results
getNewsData_return ==
    /\ pc = "news_return"
    /\ pc' = "news_returned"
    /\ UNCHANGED <<err, newsVars, debateVars, fanVars, loopVars, riskVars, twoVars>>

NewsNext == normalize_dates \/ make_request \/ parse_page \/ getNewsData_return

-----------------------------------------------------------------------------
(* Specifications *)

IdleFan ==
    /\ futures = [k \in Kinds |-> Pending]
    /\ analyst_reports = None
    /\ ticker = TxtTicker

IdleDebate ==
    /\ history = <<>>
    /\ turn = "bull"
    /\ round = 0
    /\ judge_verdict = None
    /\ route = "none"

IdleLoop ==
    /\ debate_synthesis = None
    /\ decisions = <<>>
    /\ reflections = <<>>
    /\ trader_decision = None
    /\ reflection_result = None
    /\ retry_count = 0
    /\ result = NoResult
    /\ risk_report = None
    /\ calls = <<>>

IdleRisk ==
    /\ chain_inputs = None
    /\ risky_response = None
    /\ neutral_response = None
    /\ safe_response = None
    /\ synthesis_result = None

IdleNews ==
    /\ start_date = None
    /\ end_date = None
    /\ page = 0
    /\ attempt = 0
    /\ response = None
    /\ news_results = <<>>
    /\ requests = <<>>

IdleTwo ==
    /\ runs = None
    /\ heap = <<>>
    /\ current_loop = None

\* at most one producer of a run never responds
SilentChoices == {{}} \cup {{k} : k \in Kinds}

\* workflow(ticker): line 38
Init ==
    /\ pc = "fanout"
    /\ err = "none"
    /\ IdleFan
    /\ silent \in SilentChoices
    /\ context = None
    /\ IdleDebate
    /\ max_rounds = WorkflowMaxRounds
    /\ IdleLoop
    /\ IdleRisk
    /\ IdleTwo
    /\ IdleNews

Next ==
    \/ \E k \in Kinds : task_done(k)
    \/ gather
    \/ DebateNext
    \/ read_synthesis

Spec == Init /\ [][Next]_vars

\* run_parallel_analysts alone: the pool runs every submitted task that can
\* complete, and the event loop resumes the join once it can return
FanNext == (\E k \in Kinds : task_done(k)) \/ gather

FanSpec == Init /\ [][FanNext]_vars /\ WF_vars(FanNext)

\* the reports a debate can be started with
DebateContexts ==
    { DebateContext(TxtTicker, r) :
        r \in { q \in [Kinds -> ReportReplies] :
                  \A k \in Kinds :
                     q[k] = TxtFailed => k \in {"technical_report", "news_report"} } }

\* run_debate_simulation(ticker, technical, sentiment, news, fundamentals, max_rounds)
DebateInit ==
    /\ pc = "bull"
    /\ err = "none"
    /\ IdleFan
    /\ silent = {}
    /\ context \in DebateContexts
    /\ IdleDebate
    /\ max_rounds \in -1..MaxRoundsBound
    /\ IdleLoop
    /\ IdleRisk
    /\ IdleTwo
    /\ IdleNews

DebateSpec == DebateInit /\ [][DebateNext]_vars

\* the decision loop, entered at line 58 with the locals of lines 38-47:
\* the report bundle and the debate synthesis text
LoopInit ==
    /\ pc = "decide0"
    /\ err = "none"
    /\ futures \in [Kinds -> ReportReplies]
    /\ \A k \in Kinds : futures[k] = TxtFailed => k = "news_report"
    /\ analyst_reports = futures
    /\ silent = {}
    /\ ticker = TxtTicker
    /\ context = DebateContext(ticker, analyst_reports)
    /\ IdleDebate
    /\ max_rounds = WorkflowMaxRounds
    /\ debate_synthesis \in SynthesisTexts
    /\ decisions = <<>>
    /\ reflections = <<>>
    /\ trader_decision = None
    /\ reflection_result = None
    /\ retry_count = 0
    /\ result = NoResult
    /\ risk_report \in RiskSynthesisTexts
    /\ calls = <<>>
    /\ IdleRisk
    /\ IdleTwo
    /\ IdleNews

LoopSpec == LoopInit /\ [][LoopNext]_vars

\* the risk chain of synthesizer.py, entered at line 138 with its reports and
\* its trader plan
RiskInit ==
    /\ pc = "aggressive"
    /\ err = "none"
    /\ IdleFan
    /\ silent = {}
    /\ context = None
    /\ IdleDebate
    /\ max_rounds = WorkflowMaxRounds
    /\ IdleLoop
    /\ chain_inputs \in [ sentiment_report : ReportReplies,
                          news_report : ReportReplies,
                          fundamentals_report : ReportReplies,
                          trader_plan : {TxtPlan} ]
    /\ risky_response = None
    /\ neutral_response = None
    /\ safe_response = None
    /\ synthesis_result = None
    /\ IdleTwo
    /\ IdleNews

RiskSpec == RiskInit /\ [][RiskNext]_vars

\* the risk stage of workflow, entered at line 49 with the locals of lines 38-47
StageInit ==
    /\ pc = "risk"
    /\ err = "none"
    /\ futures \in [Kinds -> ReportReplies]
    /\ analyst_reports = futures
    /\ silent = {}
    /\ ticker = TxtTicker
    /\ context = DebateContext(ticker, analyst_reports)
    /\ IdleDebate
    /\ max_rounds = WorkflowMaxRounds
    /\ debate_synthesis \in SynthesisTexts
    /\ decisions = <<>>
    /\ reflections = <<>>
    /\ trader_decision = None
    /\ reflection_result = None
    /\ retry_count = 0
    /\ result = NoResult
    /\ risk_report = None
    /\ calls = <<>>
    /\ IdleRisk
    /\ IdleTwo
    /\ IdleNews

StageSpec == StageInit /\ [][workflow_risk_stage]_vars

\* every step of workflow: the run from line 38, and the risk stage and the
\* decision loop entered with their locals as inputs
\* two calls of run_parallel_analysts, for any two tickers, in two threads
TwoRunInit ==
    /\ pc = "runs"
    /\ err = "none"
    /\ IdleFan
    /\ silent = {}
    /\ context = None
    /\ IdleDebate
    /\ max_rounds = WorkflowMaxRounds
    /\ IdleLoop
    /\ IdleRisk
    /\ runs \in {[r \in RunIds |-> NewRun(t[r])] : t \in [RunIds -> Tickers]}
    /\ heap = <<>>
    /\ current_loop = [r \in RunIds |-> 0]
    /\ IdleNews

TwoRunSpec == TwoRunInit /\ [][TwoRunNext]_vars

\* one call of getNewsData(query, start_date, end_date)
NewsInit ==
    /\ pc = "news_dates"
    /\ err = "none"
    /\ IdleFan
    /\ silent = {}
    /\ context = None
    /\ IdleDebate
    /\ max_rounds = WorkflowMaxRounds
    /\ IdleLoop
    /\ IdleRisk
    /\ IdleTwo
    /\ start_date \in DateInputs
    /\ end_date \in DateInputs
    /\ page = 0
    /\ attempt = 0
    /\ response = None
    /\ news_results = <<>>
    /\ requests = <<>>

\* the calling thread keeps running, and every HTTP request ends, with a
\* response or with an exception
NewsSpec == NewsInit /\ [][NewsNext]_vars /\ WF_vars(NewsNext)

PartsInit == Init \/ StageInit \/ LoopInit

PartsNext == Next \/ workflow_risk_stage \/ LoopNext

PartsSpec == PartsInit /\ [][PartsNext]_vars

-----------------------------------------------------------------------------
(* Claims *)

LastEntry == history[Len(history)]

JudgeJustSpoke == Len(history) > 0 /\ LastEntry.role = "judge"

DebateOver == pc \in {"end", "debate_returned"}

\* the judge text asks for another round
StartsWithNo(t) == StartsWith(Lower(t), <<"n", "o">>)

MentionsVerdict(t) ==
    \/ Contains(Lower(t), <<"b", "u", "l", "l">>)
    \/ Contains(Lower(t), <<"b", "e", "a", "r">>)
    \/ Contains(Lower(t), <<"t", "i", "e">>)

Conclusive(t) == ~StartsWithNo(t) /\ MentionsVerdict(t)

Unparseable(t) == ~StartsWithNo(t) /\ ~MentionsVerdict(t)

\* C1: a debate started with max_rounds >= 1 ends after at most max_rounds
\* rounds whatever the judge answers: once the judge of round max_rounds has
\* spoken (transcript length 3 * max_rounds, 12 for max_rounds = 4) the debate
\* is at its end node or has returned, and no further turn is taken.
C1_EndsAtMaxRounds ==
    max_rounds >= 1 =>
        /\ Len(history) <= 3 * max_rounds
        /\ (Len(history) = 3 * max_rounds => DebateOver)

\* C2: in a debate started with max_rounds >= 1 the round counter never
\* exceeds max_rounds.
C2_RoundWithinMax == max_rounds >= 1 => round <= max_rounds

RoleCycle == <<"bull", "bear", "judge">>

\* C3: the roles of the transcript are a prefix of bull, bear, judge repeated,
\* and the one node about to run is the node of the next role in that cycle.
C3_TurnOrder ==
    /\ \A i \in 1..Len(history) : history[i].role = RoleCycle[((i - 1) % 3) + 1]
    /\ pc \in {"bull", "bear", "judge"} => pc = RoleCycle[(Len(history) % 3) + 1]

C3_Witness ==
    /\ Len(history) = 5
    /\ pc = "judge"
    /\ history[3].content = TxtNoVerdict

\* C4: a judge reply that does not start with "no" and names bull, bear or tie
\* is the last entry of the transcript: the debate is at its end, the
\* transcript has 3 * round entries and the verdict is that reply; a judge
\* answering "bull" in round 1 ends the debate with 3 entries and verdict bull.
C4_ConclusiveEnds ==
    /\ \A i \in 1..Len(history) :
         (history[i].role = "judge" /\ Conclusive(history[i].content)) =>
            /\ i = Len(history)
            /\ DebateOver
            /\ Len(history) = 3 * round
            /\ judge_verdict = history[i].content
    /\ (Len(history) >= 3 /\ history[3].content = TxtBull) =>
            /\ Len(history) = 3
            /\ round = 1
            /\ DebateOver
            /\ judge_verdict = TxtBull

C4_Witness ==
    /\ pc = "debate_returned"
    /\ Len(history) = 6
    /\ history[3].content = TxtNo
    /\ history[6].content = TxtBearCap
    /\ max_rounds = 4

NormalizedVerdicts ==
    {<<"b", "u", "l", "l">>, <<"b", "e", "a", "r">>, <<"t", "i", "e">>,
     <<"r", "e", "s", "t", "a", "r", "t">>}

\* the normalization the data model describes
NormalizedVerdict(t) ==
    IF StartsWithNo(t) THEN <<"r", "e", "s", "t", "a", "r", "t">>
    ELSE IF Contains(Lower(t), <<"b", "u", "l", "l">>) THEN <<"b", "u", "l", "l">>
    ELSE IF Contains(Lower(t), <<"b", "e", "a", "r">>) THEN <<"b", "e", "a", "r">>
    ELSE IF Contains(Lower(t), <<"t", "i", "e">>) THEN <<"t", "i", "e">>
    ELSE None

\* C5: the verdict field is none before the first judge turn; after a judge
\* turn whose text starts with "no" or names bull, bear or tie it is the
\* normalized value (restart, bull, bear or tie) of that text, not the raw text.
C5_VerdictNormalized ==
    /\ Len(history) < 3 => judge_verdict = None
    /\ (JudgeJustSpoke /\ ~Unparseable(LastEntry.content)) =>
            /\ judge_verdict \in NormalizedVerdicts
            /\ judge_verdict = NormalizedVerdict(LastEntry.content)

\* C6: after an unparseable judge reply with round < max_rounds the debate goes
\* on with the bull turn; the route taken is a declared one and nothing is
\* raised.
C6_UnparseableContinues ==
    /\ route \in {"none", "bear", "judge", "bull", "end"}
    /\ (JudgeJustSpoke /\ Unparseable(LastEntry.content) /\ round < max_rounds) =>
            /\ pc = "bull"
            /\ route \in {"bull", "end"}
            /\ err = "none"

LoopOver == pc \in {"return", "returned"}

ValidatorAlwaysFlags ==
    \A i \in 1..Len(reflections) : reflections[i] = TxtHallucinationDetected

\* C7: the loop never makes more than MAX_RETRIES + 1 generations or
\* validations, they alternate, and it raises only when an invocation fails;
\* with a validator that flags every decision it ends after exactly
\* MAX_RETRIES + 1 of each and hands back the last decision generated and the
\* last, still flagged, reflection.
C7_BudgetExhausted ==
    /\ Len(decisions) <= MAX_RETRIES + 1
    /\ Len(reflections) <= Len(decisions)
    /\ Len(decisions) <= Len(reflections) + 1
    /\ pc = "raised" => err = "InvocationError"
    /\ (LoopOver /\ ValidatorAlwaysFlags) =>
            /\ Len(decisions) = MAX_RETRIES + 1
            /\ Len(reflections) = MAX_RETRIES + 1
            /\ retry_count = MAX_RETRIES
            /\ trader_decision = decisions[MAX_RETRIES + 1]
            /\ reflection_result = TxtHallucinationDetected
    /\ (pc = "returned" /\ ValidatorAlwaysFlags) =>
            /\ result.returned
            /\ result.trader_decision = decisions[MAX_RETRIES + 1]
            /\ result.reflection = TxtHallucinationDetected

C7_Witness ==
    /\ pc = "returned"
    /\ ValidatorAlwaysFlags
    /\ decisions = <<TxtBuy, TxtSell, TxtHold>>
    /\ result.trader_decision = TxtHold

\* C8: when the validator answers the first decision with NO HALLUCINATION the
\* loop ends there: one generation, one validation, no retry.
C8_NoRetryWhenSupported ==
    (Len(reflections) >= 1 /\ reflections[1] = TxtNoHallucination) =>
        /\ Len(decisions) = 1
        /\ Len(reflections) = 1
        /\ retry_count = 0
        /\ pc \in {"return", "returned"}

EndsWith(s, p) == Len(s) >= Len(p) /\ SubSeq(s, Len(s) - Len(p) + 1, Len(s)) = p

HasTrailingAction(t) ==
    \/ EndsWith(t, <<"B", "U", "Y">>)
    \/ EndsWith(t, <<"H", "O", "L", "D">>)
    \/ EndsWith(t, <<"S", "E", "L", "L">>)

\* C9: a run that returns a result returns a decision whose text ends in BUY,
\* HOLD or SELL; a decision text without such an ending is never returned.
C9_ActionParsed == pc = "returned" => HasTrailingAction(result.trader_decision)

AllProducersOK == \A k \in Kinds : futures[k] = TxtOK

JudgeBullRoundOne == Len(history) = 3 /\ history[3].content = TxtBull

\* C10: a workflow run whose six producers return text and whose judge answers
\* "bull" in round 1 raises nothing and, once over, has returned a result
\* holding the report bundle and the debate synthesis.
C10_HappyPathReturns ==
    (AllProducersOK /\ JudgeBullRoundOne) =>
        /\ pc # "raised"
        /\ err = "none"
        /\ result.returned =>
              /\ result.analyst_reports = analyst_reports
              /\ result.debate_synthesis = debate_synthesis

-----------------------------------------------------------------------------
(* Claims about run_parallel_analysts *)

\* run_parallel_analysts has returned its bundle
BundleReturned == analyst_reports # None

\* the producer of kind k failed: its handler returned the error text
Failed(k) == futures[k] = TxtFailed

\* C11: whatever the completion order, the returned bundle has exactly the six
\* keys and the value under each key is what that key's own producer returned,
\* never what a sibling returned.
C11_OwnProducerPerKey ==
    BundleReturned =>
        /\ DOMAIN analyst_reports = Kinds
        /\ Cardinality(DOMAIN analyst_reports) = Len(Submitted)
        /\ \A k \in Kinds : analyst_reports[k] = futures[k]

C11_Witness ==
    /\ BundleReturned
    /\ futures["bullish_report"] = TxtOK
    /\ futures["technical_report"] = TxtFailed
    /\ futures["sentiment_report"] = TxtOK
    /\ futures["fundamentals_report"] = TxtFailed
    /\ analyst_reports["fundamentals_report"] = TxtFailed

\* C12: when any subset of the six tasks fails, each failing task leaves its
\* error entry in its own slot only, every other task still runs to completion
\* and its slot holds its normal report, the join raises nothing and waits for
\* all six, and the full six-key bundle is returned.
C12_FailuresStayInOwnSlot ==
    /\ pc = "fanout" => err = "none"
    /\ BundleReturned =>
          /\ DOMAIN analyst_reports = Kinds
          /\ \A k \in Kinds : futures[k] \in ReportReplies
          /\ \A k \in Kinds :
                /\ Failed(k) => analyst_reports[k] = TxtFailed
                /\ ~Failed(k) => analyst_reports[k] = TxtOK

C12_Witness ==
    /\ BundleReturned
    /\ {k \in Kinds : Failed(k)} = {"bearish_report", "news_report"}
    /\ analyst_reports["bearish_report"] = TxtFailed
    /\ analyst_reports["bullish_report"] = TxtOK

\* a stage after the fan-out has started or has read a report
DownstreamStarted == pc # "fanout" \/ history # <<>> \/ BundleReturned

\* C13: the fan-out is a barrier: no later stage starts, and no report is read,
\* before all six tasks are done.
C13_Barrier == DownstreamStarted => \A k \in Kinds : futures[k] \in ReportReplies

C13_Witness ==
    /\ pc = "judge"
    /\ Len(history) = 2
    /\ analyst_reports["news_report"] = TxtOK
    /\ Failed("sentiment_report")

\* C14: the join cannot block forever: even when one producer never responds,
\* run_parallel_analysts eventually returns.
C14_JoinReturns == <>(pc # "fanout")

\* the characters a report text is made of
TextChars ==
    {UpperLetters[i] : i \in 1..26} \cup {LowerLetters[i] : i \in 1..26}
        \cup {" ", ".", ",", ":"}

\* a value of the same kind as a report: a plain text
IsText(v) == v \in Seq(TextChars)

\* C15: a failed producer's slot holds an error-typed result, which can be told
\* from a successful report without reading the text: it is not a plain text.
C15_ErrorsAreTyped ==
    BundleReturned => \A k \in Kinds : Failed(k) => ~IsText(analyst_reports[k])

-----------------------------------------------------------------------------
(* Claims about failing debate turns *)

\* C16: a failing turn invocation, the judge's included, does not abort the
\* debate: an entry for that role is appended and the run goes on.
C16_TurnFailureAbsorbed ==
    err = "InvocationError" => (pc # "raised" /\ JudgeJustSpoke)

-----------------------------------------------------------------------------
(* Claims about the risk stage *)

Stances == {"aggressive", "neutral", "conservative"}

\* the positions in calls of the invocations of agent a
CallsTo(a) == {i \in 1..Len(calls) : calls[i].agent = a}

\* the three reports in a call's arguments are the chain's own
CarriesReports(call) ==
    /\ call.args.sentiment_report = chain_inputs.sentiment_report
    /\ call.args.news_report = chain_inputs.news_report
    /\ call.args.fundamentals_report = chain_inputs.fundamentals_report

\* C17: the chain generates each stance exactly once, in the order aggressive,
\* neutral, conservative: the aggressive input holds the three reports and empty
\* stance slots, the neutral input the three reports and the aggressive output,
\* the conservative input the three reports and the aggressive and neutral
\* outputs, each output verbatim in its own slot.
C17_StanceChain ==
    /\ \A a \in Stances : Cardinality(CallsTo(a)) <= 1
    /\ pc = "chain_done" => \A a \in Stances : Cardinality(CallsTo(a)) = 1
    /\ Len(calls) >= 1 =>
          /\ calls[1].agent = "aggressive"
          /\ CarriesReports(calls[1])
          /\ calls[1].args.safe_response = Empty
          /\ calls[1].args.neutral_response = Empty
    /\ Len(calls) >= 2 =>
          /\ calls[2].agent = "neutral"
          /\ CarriesReports(calls[2])
          /\ calls[2].args.current_risky_response = risky_response
          /\ calls[2].args.current_safe_response = Empty
    /\ Len(calls) >= 3 =>
          /\ calls[3].agent = "conservative"
          /\ CarriesReports(calls[3])
          /\ calls[3].args.current_risky_response = risky_response
          /\ calls[3].args.current_neutral_response = neutral_response

C17_Witness ==
    /\ pc = "chain_done"
    /\ risky_response = TxtGoLong
    /\ neutral_response = TxtStayOut
    /\ safe_response = TxtStayOut
    /\ calls[3].args.current_risky_response = TxtGoLong
    /\ calls[3].args.current_neutral_response = TxtStayOut

\* the risk stage of workflow is over
StageOver == pc \in {"raised", "decide0"}

\* C18: in a workflow run the risk stage first produces the three stance texts
\* and only then invokes the synthesis, whose three stance inputs are exactly
\* those texts and never the raw reports; the synthesis invocation completes
\* and yields the risk synthesis text.
C18_SynthesisAfterStances ==
    StageOver =>
        /\ err = "none"
        /\ \A a \in Stances : Cardinality(CallsTo(a)) = 1
        /\ \A i \in CallsTo("synthesis") :
              /\ \A a \in Stances : \E j \in CallsTo(a) : j < i
              /\ calls[i].args.aggressive_response = risky_response
              /\ calls[i].args.neutral_response = neutral_response
              /\ calls[i].args.safe_response = safe_response
              /\ calls[i].outcome = "final"
        /\ IsText(risk_report)

\* the placeholder texts a failed stance invocation returns
DebateErrorTexts == {TxtDebateNoSession, TxtDebateNoFinal, TxtDebateFailed}

\* the local that holds the output of a stance
StanceOutput(a) ==
    CASE a = "aggressive" -> risky_response
      [] a = "neutral" -> neutral_response
      [] a = "conservative" -> safe_response

\* the argument of a later invocation that carries the output of stance a
SlotFor(callee, a) ==
    CASE callee = "synthesis" /\ a = "aggressive" -> "aggressive_response"
      [] callee = "synthesis" /\ a = "neutral" -> "neutral_response"
      [] callee = "synthesis" /\ a = "conservative" -> "safe_response"
      [] callee # "synthesis" /\ a = "aggressive" -> "current_risky_response"
      [] callee # "synthesis" /\ a = "neutral" -> "current_neutral_response"

\* C19: a failed stance invocation fills that stance's slot with an error
\* placeholder text and the chain goes on: every later stance and the
\* synthesis are still invoked, with a value that is neither absent nor empty
\* in the failed stance's slot.
C19_FailedStanceKeepsChainGoing ==
    /\ pc # "raised"
    /\ pc = "chain_done" => Len(calls) = Cardinality(Stances) + 1
    /\ \A i \in 1..Len(calls) :
          (calls[i].agent \in Stances /\ calls[i].outcome # "final") =>
              /\ StanceOutput(calls[i].agent) \in DebateErrorTexts
              /\ \A j \in (i + 1)..Len(calls) :
                    LET v == calls[j].args[SlotFor(calls[j].agent, calls[i].agent)]
                    IN  v = StanceOutput(calls[i].agent) /\ v # None /\ v # Empty

C19_Witness ==
    /\ pc = "chain_done"
    /\ calls[1].outcome = "error"
    /\ calls[2].outcome = "final"
    /\ calls[3].outcome = "no_session"
    /\ calls[4].args.aggressive_response = TxtDebateFailed
    /\ calls[4].args.safe_response = TxtDebateNoSession

\* the argument of a decision or validation call that carries report kind k
ReportSlot(k) == IF k = "technical_report" THEN "market_report" ELSE k

\* the report kinds whose report a call's arguments carry
ContextReports(call) ==
    {k \in Kinds : /\ ReportSlot(k) \in DOMAIN call.args
                   /\ call.args[ReportSlot(k)] = analyst_reports[k]}

\* C20: on every decision attempt the context handed to generation and to
\* validation holds the debate synthesis, all six analyst reports and the
\* risk synthesis text of the run, never an absent value in its place.
C20_ContextComplete ==
    \A i \in 1..Len(calls) :
        calls[i].agent \in {"trader", "reflection"} =>
            /\ calls[i].args.research_report = debate_synthesis
            /\ ContextReports(calls[i]) = Kinds
            /\ calls[i].args.risk_report \in RiskSynthesisTexts

-----------------------------------------------------------------------------
(* Claims about the decision and validation calls *)

\* the labels the decision prompt and the validation prompt share
PromptLabels ==
    {"research_report", "market_report", "sentiment_report", "news_report",
     "fundamentals_report", "risk_report"}

\* C21: on every attempt each labelled slot of the decision prompt holds the
\* report the workflow passed for that label, and the slot of the same label in
\* the validation prompt of that attempt holds the same report.
C21_SameContext ==
    \A i \in 1..Len(calls) :
        calls[i].agent = "trader" =>
            /\ \A l \in PromptLabels : calls[i].prompt[l] = calls[i].args[l]
            /\ i + 1 <= Len(calls) =>
                  \A l \in PromptLabels :
                      /\ calls[i + 1].prompt[l] = calls[i].prompt[l]
                      /\ calls[i + 1].prompt[l] = calls[i + 1].args[l]

\* the invocations that create a session
SessionCalls == {i \in 1..Len(calls) : "session_id" \in DOMAIN calls[i]}

\* C22: within one run no session key is used by two invocations on the same
\* session service.
C22_FreshSessionKeys ==
    \A i \in SessionCalls : \A j \in SessionCalls :
        (i < j /\ calls[i].service = calls[j].service) =>
            calls[i].session_id # calls[j].session_id

-----------------------------------------------------------------------------
(* Claims about the debate's transitions *)

\* a judge turn has just completed with a restart verdict below the round limit
RestartStep ==
    /\ pc = "judge"
    /\ history' # history
    /\ history'[Len(history')].role = "judge"
    /\ StartsWithNo(judge_verdict')
    /\ round < max_rounds

\* C24: when the judge's verdict is restart and round < max_rounds, the next
\* state is the bull turn and nothing else changes: every transcript entry
\* appended so far is retained unchanged and the round counter keeps its value.
C24_RestartKeepsState ==
    [][ RestartStep =>
          /\ pc' = "bull"
          /\ SubSeq(history', 1, Len(history)) = history
          /\ round' = round
          /\ max_rounds' = max_rounds
          /\ context' = context ]_vars

C24_Witness ==
    /\ pc = "bull"
    /\ round = 1
    /\ max_rounds = 2
    /\ Len(history) = 3
    /\ history[1].role = "bull"
    /\ history[3].content = TxtNo

\* the number of bear entries in the transcript
BearEntries == Cardinality({i \in 1..Len(history) : history[i].role = "bear"})

\* C25: the round counter starts at 0, never decreases and grows by one per
\* bull-bear-judge cycle: it always equals the number of bear entries, and
\* right after a judge turn the transcript holds 3 x round entries.
C25_RoundCountsCycles ==
    /\ [](round = BearEntries)
    /\ [](JudgeJustSpoke => Len(history) = 3 * round)
    /\ [][round' >= round]_vars

C25_Witness ==
    /\ JudgeJustSpoke
    /\ round = 2
    /\ Len(history) = 6
    /\ history[3].content = TxtNo

\* the argument names under which a turn could be handed the transcript
TranscriptSlots == {"history", "debate_history", "transcript"}

\* the call that produced transcript entry i is handed the entries before it
SeesTranscriptSoFar(i) ==
    \E n \in DOMAIN calls[i].args \cap TranscriptSlots :
        calls[i].args[n] = SubSeq(history, 1, i - 1)

\* C26: every bull and bear turn is invoked with the subject, the four context
\* reports and the transcript so far (a bear turn sees the bull entry of its
\* round); every judge turn is invoked with the full transcript so far.
C26_TurnsSeeTranscript ==
    \A i \in 1..Len(calls) :
        /\ calls[i].agent = "judge" => SeesTranscriptSoFar(i)
        /\ (calls[i].agent \in {"bull", "bear"} /\ i > 1) =>
              /\ calls[i].args.ticker_symbol = context.ticker
              /\ calls[i].args.sentiment_data = context.sentiment
              /\ calls[i].args.news_data = context.news
              /\ calls[i].args.fundamentals_data = context.fundamentals
              /\ SeesTranscriptSoFar(i)

\* C30: generation and validation alternate, starting with a generation; the
\* retry counter stays within 0..2; at return the decisions generated and the
\* validations made both number retries + 1, and the reflection returned is
\* the validation of exactly the decision returned.
C30_AlternationAndPairing ==
    /\ retry_count \in 0..MAX_RETRIES
    /\ \A i \in 1..Len(calls) :
          calls[i].agent = IF i % 2 = 1 THEN "trader" ELSE "reflection"
    /\ pc = "returned" =>
          /\ Len(decisions) = retry_count + 1
          /\ Len(reflections) = retry_count + 1
          /\ Len(calls) = 2 * (retry_count + 1)
          /\ result.trader_decision = decisions[Len(decisions)]
          /\ result.reflection = reflections[Len(reflections)]
          /\ calls[Len(calls)].args.trader_decision = result.trader_decision

C30_Witness ==
    /\ pc = "returned"
    /\ retry_count = MAX_RETRIES
    /\ decisions[1] = TxtBuy
    /\ decisions[3] = TxtSell
    /\ result.trader_decision = TxtSell

-----------------------------------------------------------------------------
(* Claims about the workflow's stages *)

\* the debate stage has been started and has not returned
DebateRunning == pc \in {"bull", "bear", "judge", "end"}

\* C27: once run_parallel_analysts has returned, no later step changes the
\* report bundle; no debate transition changes the debate's subject, its four
\* context reports or max_rounds; and the bundle in the returned result is the
\* bundle the fan-out produced.
C27_BundleImmutable ==
    /\ [][BundleReturned => analyst_reports' = analyst_reports]_vars
    /\ [][DebateRunning => (context' = context /\ max_rounds' = max_rounds)]_vars
    /\ [](result.returned => result.analyst_reports = Bundle(GatherResults(futures)))

C27_Witness ==
    /\ result.returned
    /\ retry_count = 1
    /\ result.analyst_reports["news_report"] = TxtFailed
    /\ result.analyst_reports["bearish_report"] = TxtOK

\* C28: after the fan-out the debate stage and the risk stage are both started
\* without either waiting for the other: while the debate is running the risk
\* stage can take its step.
C28_StagesOverlap == DebateRunning => ENABLED workflow_risk_stage

-----------------------------------------------------------------------------
(* Claims about two runs *)

KeyOf(r, k) == runs[r].keys[k]

\* C23: session keys are an injective function of (role, subject, run id):
\* any two sessions created by different tasks, of one run or of two runs,
\* for the same subject or for different ones, have different keys.
C23_KeysInjective ==
    \A r1 \in RunIds, r2 \in RunIds : \A k1 \in Kinds, k2 \in Kinds :
        ( /\ KeyOf(r1, k1) # None
          /\ KeyOf(r2, k2) # None
          /\ <<r1, k1>> # <<r2, k2>> )
        => KeyOf(r1, k1) # KeyOf(r2, k2)

\* the objects a run constructed
Owned(r) ==
    IF runs[r].pc = "start" THEN {}
    ELSE {runs[r].executor, runs[r].loop} \cup {runs[r].services[k] : k \in Kinds}

DifferentSubjects == runs[1].ticker # runs[2].ticker

\* what a run for tk returns when it runs alone with the same responses
AloneResult(tk) == [k \in Kinds |-> Response(tk, k)]

\* a step leaves alone the locals, the objects and the current loop of a run
\* whose locals it does not change
LeavesOthersAlone ==
    \A q \in RunIds :
        runs'[q] = runs[q] =>
            /\ \A o \in Owned(q) : heap'[o] = heap[o]
            /\ current_loop'[q] = current_loop[q]

-----------------------------------------------------------------------------
(* Claims about invocations without a final response *)

\* the validations whose invocation ended without a final response
UnansweredValidations ==
    {i \in 1..Len(calls) : calls[i].agent = "reflection" /\ calls[i].outcome = "no_final"}

\* C31: a validation whose invocation yields no final response results in the
\* empty reflection text, which is not flagged: no further decision or
\* validation is made, and the decision it was asked about is the one returned,
\* together with the empty reflection.
C31_UnansweredValidationAccepts ==
    \A i \in UnansweredValidations :
        /\ reflections[i \div 2] = Empty
        /\ Len(calls) = i
        /\ Len(decisions) = i \div 2
        /\ retry_count = (i \div 2) - 1
        /\ pc \in {"return", "returned"}
        /\ pc = "returned" =>
              /\ result.trader_decision = decisions[i \div 2]
              /\ result.reflection = Empty

C31_Witness ==
    /\ pc = "returned"
    /\ Len(calls) = 4
    /\ calls[2].outcome = "final"
    /\ calls[4].outcome = "no_final"
    /\ reflections = <<TxtHallucinationDetected, Empty>>
    /\ result.trader_decision = TxtSell

\* the judge turn just made ended without a final response
JudgeUnanswered ==
    /\ JudgeJustSpoke
    /\ calls[Len(calls)].agent = "judge"
    /\ calls[Len(calls)].outcome = "no_final"

\* C32: a judge invocation without a final response leaves the fallback text
\* "No verdict returned." as the judge entry and as the verdict, and the router
\* answers it as it answers an explicit restart verdict, with the bull turn,
\* whatever round and max_rounds are.
C32_FallbackVerdictRestarts ==
    JudgeUnanswered =>
        /\ LastEntry.content = TxtNoVerdict
        /\ judge_verdict = TxtNoVerdict
        /\ route = "bull"
        /\ pc = "bull"
        /\ err = "none"
        /\ debate_router(TxtNo, round, max_rounds, turn) = route

C32_Witness ==
    /\ JudgeUnanswered
    /\ pc = "bull"
    /\ round = 2
    /\ max_rounds = 1
    /\ Len(history) = 6
    /\ history[3].content = TxtNoVerdict

-----------------------------------------------------------------------------
(* Claims about the debate's transcript and state *)

\* C33: whatever max_rounds is, zero and negative values included, a debate
\* that has ended has run a complete bull, bear, judge cycle: the route to the
\* end is only ever taken after a judge turn, the transcript has at least 3
\* entries and the round counter is at least 1.
C33_OneCycleBeforeEnd ==
    /\ route = "end" => JudgeJustSpoke
    /\ DebateOver =>
          /\ Len(history) >= 3
          /\ round >= 1
          /\ history[1].role = "bull"
          /\ history[2].role = "bear"
          /\ history[3].role = "judge"

C33_Witness ==
    /\ pc = "debate_returned"
    /\ max_rounds = -1
    /\ round = 1
    /\ Len(history) = 3
    /\ judge_verdict = TxtUnsure

\* a node has run to its end in this step
NodeCompleted == pc \in {"bull", "bear", "judge"} /\ calls' # calls

\* C34: the transcript is append-only: every step keeps the transcript it
\* found as a prefix of the one it leaves; a node that completes appends
\* exactly one entry, tagged with the node's own role; the end node appends none.
C34_TranscriptAppendOnly ==
    [][ /\ Len(history') >= Len(history)
        /\ SubSeq(history', 1, Len(history)) = history
        /\ NodeCompleted =>
              /\ Len(history') = Len(history) + 1
              /\ history'[Len(history')].role = pc
        /\ pc = "end" => history' = history ]_vars

C34_Witness ==
    /\ pc = "debate_returned"
    /\ Len(history) = 9
    /\ \A i \in 1..9 : history[i].role = RoleCycle[((i - 1) % 3) + 1]
    /\ history[9].content = TxtTie

\* C35: from_dict(as_dict(s)) equals s in every field, for every state s a
\* debate reaches.
C35_DictRoundTrip == from_dict(as_dict(DebateStateNow)) = DebateStateNow

C35_Witness ==
    /\ from_dict(as_dict(DebateStateNow)).judge_verdict = TxtBearBeatsBull
    /\ from_dict(as_dict(DebateStateNow)).round = 2
    /\ from_dict(as_dict(DebateStateNow)).turn = "judge"
    /\ Len(from_dict(as_dict(DebateStateNow)).history) = 6
    /\ context.news = TxtFailed

-----------------------------------------------------------------------------
(* Claims about getNewsData *)

\* the request delivered a page to getNewsData
Delivered(q) == ~q.raised /\ q.status # 429

RECURSIVE Gathered(_)
\* the readable elements of the pages delivered by the requests of log
Gathered(log) ==
    IF Len(log) = 0 THEN <<>>
    ELSE Gathered(SubSeq(log, 1, Len(log) - 1))
            \o (IF Delivered(log[Len(log)])
                THEN ItemsOf(log[Len(log)].page, log[Len(log)].content)
                ELSE <<>>)

NewsOver == pc \in {"news_return", "news_returned"}

====
